---- MODULE Spec2Model ----
(***************************************************************************)
(* Task orchestration (RuleBasedOrchestrator) and event streaming          *)
(* (StreamingAgentOrchestrator) of ChainReactors5.                         *)
(*                                                                         *)
(* Numbers: success_rate is kept in tenths (10 = 1.0, Step = 0.1), the     *)
(* response time is an abstract duration 0..MaxRT.  AgentRegistration      *)
(* objects live in a heap (objs) because route_task keeps references to    *)
(* them across its awaits while register_agent may replace the registry    *)
(* entry; objects nobody references any more are reclaimed.                *)
(* A user_input is represented by the set of rule keywords it contains.    *)
(***************************************************************************)
EXTENDS Integers, Sequences, FiniteSets, TLC

\* ---------------------------------------------------------------- bounds
MaxObjs == 2        \* AgentRegistration objects alive at the same time
MaxRules == 7       \* length of routing_rules (5 default rules + added ones)
MaxHistory == 1     \* length of task_history
MaxRT == 1          \* largest observed response time
MaxClients == 2     \* length of connected_clients
MaxEvents == 2      \* events put on the event queue
MaxLoops == 2       \* _process_event_queue tasks alive at the same time

\* ------------------------------------------------------- program constants
RateMax == 10       \* success_rate 1.0, in tenths
RateMin == 0        \* success_rate 0.0
Step == 1           \* the 0.1 added or subtracted per attempt

Null == [kind |-> "null"]

Tasks == {"t1", "t2"}
Keywords == {"inventory", "forecast"}
Inputs == SUBSET Keywords
HandlerResults == {"data", "error_signal"}
Clients == {"c1", "c2"}
SendOutcomes == {"ok", "closed", "error"}
Servers == {"websocket_server", "streaming_server"}
Reasons == {"close", "disconnect", "error"}

\* request texts of the AgentOrchestrator, each as the set of the words of
\* Vocabulary it contains (no word of it contains a keyword other than itself)
Vocabulary == {"stock", "forecast", "supplier", "optimize"}
Texts == SUBSET Vocabulary

\* _analyze_intent: the keyword lists of lines 216, 222, 228 and 234
inventory_keywords == {"inventory", "stock", "reorder", "low stock", "out of stock"}
forecasting_keywords == {"forecast", "predict", "demand", "trend", "seasonal"}
supplier_keywords == {"supplier", "vendor", "procurement", "cost", "performance"}
complex_keywords == {"optimize", "analyze", "comprehensive", "supply chain", "strategy"}

\* the agents that may call register_agent: (agent_id, capability names)
AgentPool ==
  { [agent_id |-> "inventory_agent", caps |-> {"inventory_management"}],
    [agent_id |-> "forecasting_agent", caps |-> {"demand_forecasting"}] }

\* rules a caller may pass to add_routing_rule: the condition is a string
\* such as '"inventory" in user_input.lower()'
StrCond(kw) == [type |-> "str", has_in |-> TRUE, has_ref |-> TRUE, keyword |-> kw]
BoolCond == [type |-> "bool", has_in |-> FALSE, has_ref |-> FALSE, keyword |-> ""]

RulePool ==
  { [condition |-> StrCond("inventory"),
     required_capabilities |-> <<"inventory_management", "demand_forecasting">>],
    [condition |-> StrCond("forecast"), required_capabilities |-> <<"demand_forecasting">>] }

VARIABLES
  objs,               \* heap of AgentRegistration objects, by reference
  registered_agents,  \* the dict, as the sequence of references in insertion order
  routing_rules,      \* list of rules
  task_history,       \* list of task ids
  pc,                 \* per route_task call: "idle", "awaiting", "done"
  suitable,           \* per call: the suitable_agents list (references)
  idx,                \* per call: position of the for loop in suitable
  result,             \* per call: the returned dict
  attempts,           \* per call: the completed handler invocations
  connected_clients,  \* list of subscribers
  event_queue,        \* the asyncio.Queue
  streaming_active,   \* flag
  published,          \* number of events put on the queue so far
  loops,              \* the _process_event_queue tasks
  sent,               \* per client: the events whose send was called, in order
  orch,               \* the process_user_request call of the AgentOrchestrator
  conn                \* per client: its connection handler

dvars == <<objs, registered_agents, routing_rules, task_history, pc,
           suitable, idx, result, attempts>>
bvars == <<connected_clients, event_queue, streaming_active, published, loops, sent>>
ovars == <<orch>>
cvars == <<conn>>
vars == <<dvars, bvars, ovars, cvars>>

Refs == 1..MaxObjs
Loops == 1..MaxLoops

\* ------------------------------------------------------------ helpers
Range(s) == { s[i] : i \in 1..Len(s) }

Min(a, b) == IF a <= b THEN a ELSE b
Max(a, b) == IF a >= b THEN a ELSE b

\* _initialize_default_rules: every condition is the value of an expression
\* such as ("inventory" in "user_input.lower()"), i.e. the bool False
DefaultRules ==
  << [condition |-> BoolCond, required_capabilities |-> <<"inventory_management">>],
     [condition |-> BoolCond, required_capabilities |-> <<"demand_forecasting">>],
     [condition |-> BoolCond, required_capabilities |-> <<"supplier_management">>],
     [condition |-> BoolCond, required_capabilities |-> <<"order_management">>],
     [condition |-> BoolCond, required_capabilities |-> <<"cost_optimization">>] >>

\* AgentRegistration(...) as built by register_agent
NewRegistration(agent) ==
  [kind |-> "agent", agent_id |-> agent.agent_id, caps |-> agent.caps,
   status |-> "active", success_rate |-> RateMax, response_time |-> 0]

\* _evaluate_rule: '"in" in condition' raises on a bool and the except
\* clause returns False
_evaluate_rule(rule, input) ==
  IF rule.condition.type # "str" THEN FALSE
  ELSE IF rule.condition.has_in /\ rule.condition.has_ref
       THEN rule.condition.keyword \in input
       ELSE FALSE

\* variant: the status test of line 180 left out
RECURSIVE FilterAgentsAnyStatus(_, _, _)
FilterAgentsAnyStatus(heap, refs, required) ==
  IF refs = <<>> THEN <<>>
  ELSE LET a == heap[Head(refs)]
           rest == FilterAgentsAnyStatus(heap, Tail(refs), required)
       IN IF \E i \in 1..Len(required) : required[i] \in a.caps
          THEN <<Head(refs)>> \o rest
          ELSE rest

\* variant: all() where line 184 has any()
RECURSIVE FilterAgentsAllCaps(_, _, _)
FilterAgentsAllCaps(heap, refs, required) ==
  IF refs = <<>> THEN <<>>
  ELSE LET a == heap[Head(refs)]
           rest == FilterAgentsAllCaps(heap, Tail(refs), required)
       IN IF a.status # "active" THEN rest
          ELSE IF \A i \in 1..Len(required) : required[i] \in a.caps
               THEN <<Head(refs)>> \o rest
               ELSE rest

RECURSIVE FilterAgents(_, _, _)
FilterAgents(heap, refs, required) ==
  IF refs = <<>> THEN <<>>
  ELSE LET a == heap[Head(refs)]
           rest == FilterAgents(heap, Tail(refs), required)
       IN IF a.status # "active" THEN rest
          ELSE IF \E i \in 1..Len(required) : required[i] \in a.caps
               THEN <<Head(refs)>> \o rest
               ELSE rest

_find_agents_by_capabilities(heap, registry, required) ==
  FilterAgents(heap, registry, required)

\* variant: every rule contributes, whether it matches or not
RECURSIVE RecruitIgnoringRules(_, _, _, _)
RecruitIgnoringRules(heap, registry, rules, input) ==
  IF rules = <<>> THEN <<>>
  ELSE _find_agents_by_capabilities(heap, registry, Head(rules).required_capabilities)
       \o RecruitIgnoringRules(heap, registry, Tail(rules), input)

RECURSIVE Recruit(_, _, _, _)
Recruit(heap, registry, rules, input) ==
  IF rules = <<>> THEN <<>>
  ELSE (IF _evaluate_rule(Head(rules), input)
        THEN _find_agents_by_capabilities(heap, registry, Head(rules).required_capabilities)
        ELSE <<>>) \o Recruit(heap, registry, Tail(rules), input)

\* list({agent.agent_id: agent for agent in suitable_agents}.values()):
\* one entry per agent_id, at the position of its first occurrence
\* variant: no removal of duplicates
UniqueKeepAll(heap, refs, seen) == refs

RECURSIVE Unique(_, _, _)
Unique(heap, refs, seen) ==
  IF refs = <<>> THEN <<>>
  ELSE IF heap[Head(refs)].agent_id \in seen
       THEN Unique(heap, Tail(refs), seen)
       ELSE <<Head(refs)>> \o Unique(heap, Tail(refs), seen \cup {heap[Head(refs)].agent_id})

\* key=lambda x: (x.success_rate, -x.response_time)
\* variant: the response time not negated in the key
KeyLessPlainTime(a, b) ==
  \/ a.success_rate < b.success_rate
  \/ a.success_rate = b.success_rate /\ a.response_time < b.response_time

KeyLess(a, b) ==
  \/ a.success_rate < b.success_rate
  \/ a.success_rate = b.success_rate /\ (0 - a.response_time) < (0 - b.response_time)

\* list.sort(reverse=True) is stable: equal keys keep their original order
\* variant: an unstable sort, equal keys end up in reverse order
RECURSIVE InsertDescUnstable(_, _, _)
InsertDescUnstable(heap, r, sorted) ==
  IF sorted = <<>> THEN <<r>>
  ELSE IF ~KeyLess(heap[r], heap[Head(sorted)])
       THEN <<r>> \o sorted
       ELSE <<Head(sorted)>> \o InsertDescUnstable(heap, r, Tail(sorted))

RECURSIVE InsertDesc(_, _, _)
InsertDesc(heap, r, sorted) ==
  IF sorted = <<>> THEN <<r>>
  ELSE IF KeyLess(heap[Head(sorted)], heap[r])
       THEN <<r>> \o sorted
       ELSE <<Head(sorted)>> \o InsertDesc(heap, r, Tail(sorted))

RECURSIVE SortDesc(_, _, _)
SortDesc(heap, refs, acc) ==
  IF refs = <<>> THEN acc
  ELSE SortDesc(heap, Tail(refs), InsertDesc(heap, Head(refs), acc))

find_best_agents(heap, registry, rules, input) ==
  SortDesc(heap, Unique(heap, Recruit(heap, registry, rules, input), {}), <<>>)

\* references still held by somebody: the registry and the rest of the
\* suitable_agents list of every call that is awaiting a handler
Held(registry, pcs, lists, positions) ==
  Range(registry) \cup
  { r \in Refs : \E t \in Tasks : /\ pcs[t] = "awaiting"
                                  /\ \E i \in positions[t]..Len(lists[t]) : lists[t][i] = r }

Collect(heap, registry, pcs, lists, positions) ==
  [r \in Refs |-> IF r \in Held(registry, pcs, lists, positions) THEN heap[r] ELSE Null]

\* ------------------------------------------------------------ Init
InitDispatch ==
  /\ objs = [r \in Refs |-> Null]
  /\ registered_agents = <<>>
  /\ routing_rules = DefaultRules
  /\ task_history = <<>>
  /\ pc = [t \in Tasks |-> "idle"]
  /\ suitable = [t \in Tasks |-> <<>>]
  /\ idx = [t \in Tasks |-> 0]
  /\ result = [t \in Tasks |-> Null]
  /\ attempts = [t \in Tasks |-> <<>>]

\* ------------------------------------------------------------ actions
\* register_agent: self.registered_agents[agent.agent_id] = registration
register_agent(agent) ==
  /\ \E r \in Refs : objs[r] = Null
  /\ LET r == CHOOSE x \in Refs : objs[x] = Null /\ \A y \in Refs : objs[y] = Null => x <= y
         heap == [objs EXCEPT ![r] = NewRegistration(agent)]
         registry ==
           IF \E i \in 1..Len(registered_agents) :
                  objs[registered_agents[i]].agent_id = agent.agent_id
           THEN [i \in 1..Len(registered_agents) |->
                   IF objs[registered_agents[i]].agent_id = agent.agent_id
                   THEN r ELSE registered_agents[i]]
           ELSE Append(registered_agents, r)
     IN /\ registered_agents' = registry
        /\ objs' = Collect(heap, registry, pc, suitable, idx)
  /\ UNCHANGED <<routing_rules, task_history, pc, suitable, idx,
                 result, attempts>>
  /\ UNCHANGED <<bvars, ovars, cvars>>

\* add_routing_rule
add_routing_rule(rule) ==
  /\ Len(routing_rules) < MaxRules
  /\ routing_rules' = Append(routing_rules, rule)
  /\ UNCHANGED <<objs, registered_agents, task_history, pc, suitable,
                 idx, result, attempts>>
  /\ UNCHANGED <<bvars, ovars, cvars>>

\* route_task up to its first await (or to its return when no agent suits)
RouteTaskStart(t, input) ==
  /\ pc[t] # "awaiting"
  /\ Len(task_history) < MaxHistory
  /\ LET L == find_best_agents(objs, registered_agents, routing_rules, input)
     IN /\ attempts' = [attempts EXCEPT ![t] = <<>>]
        /\ IF L = <<>>
           THEN /\ pc' = [pc EXCEPT ![t] = "done"]
                /\ result' = [result EXCEPT ![t] =
                     [kind |-> "failure", success |-> FALSE, input |-> input,
                      error |-> "No suitable agents found for this task"]]
                /\ suitable' = [suitable EXCEPT ![t] = <<>>]
                /\ idx' = [idx EXCEPT ![t] = 0]
                /\ UNCHANGED objs
           ELSE /\ pc' = [pc EXCEPT ![t] = "awaiting"]
                /\ result' = [result EXCEPT ![t] = Null]
                /\ suitable' = [suitable EXCEPT ![t] = L]
                /\ idx' = [idx EXCEPT ![t] = 1]
                /\ objs' = [objs EXCEPT ![L[1]].status = "busy"]
  /\ UNCHANGED <<registered_agents, routing_rules, task_history>>
  /\ UNCHANGED <<bvars, ovars, cvars>>

\* variants: the min(1.0, ...) left out; a failure rewarded like a success
RateUpNoCap(rate) == rate + Step
RateDownAsUp(rate) == Min(RateMax, rate + Step)

\* success_rate after a successful attempt (line 222)
RateUp(rate) == Min(RateMax, rate + Step)

\* variant: a failure costs two steps
RateDownDouble(rate) == Max(RateMin, rate - 2 * Step)

\* success_rate after a failed attempt (line 240)
RateDown(rate) == Max(RateMin, rate - Step)

\* variant: the task is not stored
ArchiveNothing(history, t) == history

\* self.task_history.append(task), line 225
Archive(history, t) == Append(history, t)

\* variant: the success branch does not return while candidates remain
HandlerReturnsAndGoesOn(t, value, rt) ==
  /\ pc[t] = "awaiting"
  /\ LET r == suitable[t][idx[t]]
         a == objs[r]
         more == idx[t] < Len(suitable[t])
         heap == [objs EXCEPT ![r] = [a EXCEPT !.response_time = rt,
                                               !.status = "active",
                                               !.success_rate = RateUp(a.success_rate)]]
         pcs == [pc EXCEPT ![t] = IF more THEN "awaiting" ELSE "done"]
     IN /\ pc' = pcs
        /\ task_history' = Archive(task_history, t)
        /\ result' = [result EXCEPT ![t] =
             [kind |-> "success", success |-> TRUE, result |-> value,
              agent_used |-> a.agent_id]]
        /\ attempts' = [attempts EXCEPT ![t] =
             Append(@, [agent_id |-> a.agent_id, ok |-> TRUE,
                        delta |-> heap[r].success_rate - a.success_rate,
                        at_limit |-> a.success_rate = RateMax])]
        /\ suitable' = [suitable EXCEPT ![t] = IF more THEN @ ELSE <<>>]
        /\ idx' = [idx EXCEPT ![t] = IF more THEN @ + 1 ELSE 0]
        /\ objs' = Collect(IF more
                             THEN [heap EXCEPT ![suitable[t][idx[t] + 1]].status = "busy"]
                             ELSE heap,
                           registered_agents, pcs, suitable', idx')
  /\ UNCHANGED <<registered_agents, routing_rules>>
  /\ UNCHANGED <<bvars, ovars, cvars>>

\* the awaited handler returns: lines 217-235
HandlerReturns(t, value, rt) ==
  /\ pc[t] = "awaiting"
  /\ LET r == suitable[t][idx[t]]
         a == objs[r]
         heap == [objs EXCEPT ![r] = [a EXCEPT !.response_time = rt,
                                               !.status = "active",
                                               !.success_rate = RateUp(a.success_rate)]]
         pcs == [pc EXCEPT ![t] = "done"]
     IN /\ pc' = pcs
        /\ task_history' = Archive(task_history, t)
        /\ result' = [result EXCEPT ![t] =
             [kind |-> "success", success |-> TRUE, result |-> value,
              agent_used |-> a.agent_id]]
        /\ attempts' = [attempts EXCEPT ![t] =
             Append(@, [agent_id |-> a.agent_id, ok |-> TRUE,
                        delta |-> heap[r].success_rate - a.success_rate,
                        at_limit |-> a.success_rate = RateMax])]
        /\ suitable' = [suitable EXCEPT ![t] = <<>>]
        /\ idx' = [idx EXCEPT ![t] = 0]
        /\ objs' = Collect(heap, registered_agents, pcs, suitable', idx')
  /\ UNCHANGED <<registered_agents, routing_rules>>
  /\ UNCHANGED <<bvars, ovars, cvars>>

\* variant: when the last candidate has failed the loop starts over with
\* the first one (as long as the registrations it holds are still there)
HandlerRaisesStartsOver(t) ==
  /\ pc[t] = "awaiting"
  /\ \A i \in 1..Len(suitable[t]) : objs[suitable[t][i]] # Null
  /\ LET r == suitable[t][idx[t]]
         a == objs[r]
         heap1 == [objs EXCEPT ![r] = [a EXCEPT !.status = "active",
                                                !.success_rate = RateDown(a.success_rate)]]
         next == IF idx[t] < Len(suitable[t]) THEN idx[t] + 1 ELSE 1
     IN /\ idx' = [idx EXCEPT ![t] = next]
        /\ attempts' = [attempts EXCEPT ![t] =
             IF next = 1 THEN <<>>
             ELSE Append(@, [agent_id |-> a.agent_id, ok |-> FALSE,
                             delta |-> heap1[r].success_rate - a.success_rate,
                             at_limit |-> a.success_rate = RateMin])]
        /\ objs' = [heap1 EXCEPT ![suitable[t][next]].status = "busy"]
  /\ UNCHANGED <<registered_agents, routing_rules, task_history, pc, suitable, result>>
  /\ UNCHANGED <<bvars, ovars, cvars>>

\* the awaited handler raises: lines 237-241, then the next iteration up to
\* its await, or the return of lines 243-247
HandlerRaises(t) ==
  /\ pc[t] = "awaiting"
  /\ LET r == suitable[t][idx[t]]
         a == objs[r]
         heap1 == [objs EXCEPT ![r] = [a EXCEPT !.status = "active",
                                                !.success_rate = RateDown(a.success_rate)]]
         more == idx[t] < Len(suitable[t])
         pcs == [pc EXCEPT ![t] = IF more THEN "awaiting" ELSE "done"]
     IN /\ pc' = pcs
        /\ attempts' = [attempts EXCEPT ![t] =
             Append(@, [agent_id |-> a.agent_id, ok |-> FALSE,
                        delta |-> heap1[r].success_rate - a.success_rate,
                        at_limit |-> a.success_rate = RateMin])]
        /\ IF more
           THEN /\ idx' = [idx EXCEPT ![t] = @ + 1]
                /\ suitable' = suitable
                /\ result' = result
                /\ objs' = Collect([heap1 EXCEPT ![suitable[t][idx[t] + 1]].status = "busy"],
                                   registered_agents, pcs, suitable', idx')
           ELSE /\ idx' = [idx EXCEPT ![t] = 0]
                /\ suitable' = [suitable EXCEPT ![t] = <<>>]
                /\ result' = [result EXCEPT ![t] =
                     [kind |-> "failure", success |-> FALSE,
                      error |-> "All suitable agents failed to process the task"]]
                /\ objs' = Collect(heap1, registered_agents, pcs, suitable', idx')
  /\ UNCHANGED <<registered_agents, routing_rules, task_history>>
  /\ UNCHANGED <<bvars, ovars, cvars>>

\* the task running route_task is cancelled while it awaits a handler:
\* CancelledError, which is not an Exception, passes the except clause of
\* line 237 and leaves route_task; nothing is returned
CancelTask(t) ==
  /\ pc[t] = "awaiting"
  /\ pc' = [pc EXCEPT ![t] = "done"]
  /\ result' = [result EXCEPT ![t] = [kind |-> "cancelled"]]
  /\ suitable' = [suitable EXCEPT ![t] = <<>>]
  /\ idx' = [idx EXCEPT ![t] = 0]
  /\ objs' = Collect(objs, registered_agents, pc', suitable', idx')
  /\ UNCHANGED <<registered_agents, routing_rules, task_history, attempts>>
  /\ UNCHANGED <<bvars, ovars, cvars>>

\* deactivate(handler_id): status becomes "inactive"
deactivate(r) ==
  /\ r \in Range(registered_agents)
  /\ objs[r].status # "inactive"
  /\ objs' = [objs EXCEPT ![r].status = "inactive"]
  /\ UNCHANGED <<registered_agents, routing_rules, task_history, pc,
                 suitable, idx, result, attempts>>
  /\ UNCHANGED <<bvars, ovars, cvars>>

\* ====================================================== event streaming
\* StreamingAgentOrchestrator.  A send is entered in the log of its client
\* when client.send is called; 0 in a log marks that the client left
\* connected_clients.  A loop record is one _process_event_queue task.
NoLoop == [pc |-> "none", event |-> 0, i |-> 0, client |-> "", disconnected |-> <<>>,
           audience |-> {}, raised |-> {}]

InitBus ==
  /\ connected_clients = <<>>
  /\ event_queue = <<>>
  /\ streaming_active = FALSE
  /\ published = 0
  /\ loops = [l \in Loops |-> NoLoop]
  /\ sent = [c \in Clients |-> <<>>]

\* list.remove(x): the first occurrence goes
RECURSIVE RemoveFirst(_, _)
RemoveFirst(s, x) ==
  IF s = <<>> THEN <<>>
  ELSE IF Head(s) = x THEN Tail(s)
       ELSE <<Head(s)>> \o RemoveFirst(Tail(s), x)

\* remove_client on the list
RemoveClient(list, c) == IF c \in Range(list) THEN RemoveFirst(list, c) ELSE list

\* the removal loop of lines 82-83
RECURSIVE RemoveAll(_, _)
RemoveAll(list, gone) ==
  IF gone = <<>> THEN list
  ELSE RemoveAll(RemoveClient(list, Head(gone)), Tail(gone))

\* the logs after the registry changed from before to after
MarkGone(log, before, after) ==
  [c \in Clients |->
     IF c \in Range(before) /\ c \notin Range(after) /\ log[c] # <<>>
           /\ log[c][Len(log[c])] # 0
     THEN Append(log[c], 0) ELSE log[c]]

\* the subscribers registered ever since each delivery in progress began
StillThere(ls, list) ==
  [l \in Loops |-> [ls[l] EXCEPT !.audience = @ \cap Range(list)]]

\* the while test of line 87, reached without suspension
AfterIteration(active) ==
  IF active THEN [NoLoop EXCEPT !.pc = "get"] ELSE NoLoop

\* variant: no except clause in the loop, the exception ends the task
AfterErrorLoopEnds(active) == NoLoop

\* except Exception of lines 93-94: the error is printed and the while test
\* follows
AfterError(active) == AfterIteration(active)

\* start_streaming
start_streaming ==
  /\ \E l \in Loops : loops[l].pc = "none"
  /\ LET l == CHOOSE x \in Loops :
                 loops[x].pc = "none" /\ \A y \in Loops : loops[y].pc = "none" => x <= y
     IN loops' = [loops EXCEPT ![l] = [NoLoop EXCEPT !.pc = "new"]]
  /\ streaming_active' = TRUE
  /\ UNCHANGED <<connected_clients, event_queue, published, sent>>
  /\ UNCHANGED <<dvars, ovars, cvars>>

\* stop_streaming
stop_streaming ==
  /\ streaming_active
  /\ streaming_active' = FALSE
  /\ UNCHANGED <<connected_clients, event_queue, published, loops, sent>>
  /\ UNCHANGED <<dvars, ovars, cvars>>

\* add_client
add_client(c) ==
  /\ Len(connected_clients) < MaxClients
  /\ connected_clients' = Append(connected_clients, c)
  /\ UNCHANGED <<event_queue, streaming_active, published, loops, sent>>
  /\ UNCHANGED <<dvars, ovars, cvars>>

\* remove_client
remove_client(c) ==
  /\ c \in Range(connected_clients)
  /\ connected_clients' = RemoveClient(connected_clients, c)
  /\ sent' = MarkGone(sent, connected_clients, connected_clients')
  /\ loops' = StillThere(loops, connected_clients')
  /\ UNCHANGED <<event_queue, streaming_active, published>>
  /\ UNCHANGED <<dvars, ovars, cvars>>

\* await self.event_queue.put(event): events are numbered in publish order
publish ==
  /\ published < MaxEvents
  /\ published' = published + 1
  /\ event_queue' = Append(event_queue, published + 1)
  /\ UNCHANGED <<connected_clients, streaming_active, loops, sent>>
  /\ UNCHANGED <<dvars, ovars, cvars>>

\* the created task runs for the first time: the while test
LoopBegins(l) ==
  /\ loops[l].pc = "new"
  /\ loops' = [loops EXCEPT ![l] = AfterIteration(streaming_active)]
  /\ UNCHANGED <<connected_clients, event_queue, streaming_active, published, sent>>
  /\ UNCHANGED <<dvars, ovars, cvars>>

\* wait_for times out and the while test finds streaming stopped (with
\* streaming active the loop is back in wait_for, the same state)
LoopTimesOut(l) ==
  /\ loops[l].pc = "get"
  /\ ~streaming_active
  /\ loops' = [loops EXCEPT ![l] = NoLoop]
  /\ UNCHANGED <<connected_clients, event_queue, streaming_active, published, sent>>
  /\ UNCHANGED <<dvars, ovars, cvars>>

\* wait_for returns an event; broadcast_event up to its first await
LoopGetsEvent(l) ==
  /\ loops[l].pc = "get"
  /\ event_queue # <<>>
  /\ event_queue' = Tail(event_queue)
  /\ IF connected_clients = <<>>
     THEN /\ loops' = [loops EXCEPT ![l] = AfterIteration(streaming_active)]
          /\ sent' = sent
     ELSE /\ loops' = [loops EXCEPT ![l] =
                 [pc |-> "send", event |-> Head(event_queue), i |-> 1,
                  client |-> connected_clients[1], disconnected |-> <<>>,
                  audience |-> Range(connected_clients), raised |-> {}]]
          /\ sent' = [sent EXCEPT ![connected_clients[1]] = Append(@, Head(event_queue))]
  /\ UNCHANGED <<connected_clients, streaming_active, published>>
  /\ UNCHANGED <<dvars, ovars, cvars>>

\* the awaited client.send completes: "ok", "closed" (ConnectionClosed) or
\* "error" (another exception); then the for loop goes on to its next await,
\* or broadcast_event ends and the while test follows
SendCompletes(l, outcome) ==
  /\ loops[l].pc = "send"
  /\ LET me == loops[l]
         gone == IF outcome = "closed"
                 THEN Append(me.disconnected, me.client) ELSE me.disconnected
         raised == IF outcome = "ok" THEN me.raised ELSE me.raised \cup {me.client}
     IN IF outcome = "error"
        THEN /\ loops' = [loops EXCEPT ![l] =
                   [AfterError(streaming_active) EXCEPT !.raised = raised]]
             /\ UNCHANGED <<connected_clients, sent>>
        ELSE IF me.i + 1 <= Len(connected_clients)
        THEN /\ loops' = [loops EXCEPT ![l] =
                   [me EXCEPT !.i = me.i + 1, !.client = connected_clients[me.i + 1],
                               !.disconnected = gone, !.raised = raised]]
             /\ sent' = [sent EXCEPT ![connected_clients[me.i + 1]] = Append(@, me.event)]
             /\ UNCHANGED connected_clients
        ELSE /\ connected_clients' = RemoveAll(connected_clients, gone)
             /\ sent' = MarkGone(sent, connected_clients, connected_clients')
             /\ loops' = [StillThere(loops, connected_clients') EXCEPT ![l] =
                   [AfterIteration(streaming_active) EXCEPT !.raised = raised]]
  /\ UNCHANGED <<event_queue, streaming_active, published>>
  /\ UNCHANGED <<dvars, ovars, cvars>>

\* ------------------------------------------------ connection handlers
\* One handler per client connection: handle_client of websocket_server.py
\* and websocket_endpoint of streaming_server.py.
NoConnection == [pc |-> "none", server |-> ""]

InitConn == conn = [c \in Clients |-> NoConnection]

\* the handler registers the connection and waits for messages
Connect(c, server) ==
  /\ conn[c].pc = "none"
  /\ Len(connected_clients) < MaxClients
  /\ connected_clients' = Append(connected_clients, c)
  /\ conn' = [conn EXCEPT ![c] = [pc |-> "open", server |-> server]]
  /\ UNCHANGED <<event_queue, streaming_active, published, loops, sent>>
  /\ UNCHANGED <<dvars, ovars>>

\* handle_client, lines 45-52
handle_client(c) == Connect(c, "websocket_server")

\* websocket_endpoint, lines 42-45
websocket_endpoint(c) == Connect(c, "streaming_server")

\* whether the handler's exit path calls remove_client: the finally of
\* handle_client on every path; in websocket_endpoint only the
\* except WebSocketDisconnect clause (a close by the client arrives as
\* WebSocketDisconnect), the except Exception clause only closes the socket
Unregisters(server, reason) ==
  \/ server = "websocket_server"
  \/ server = "streaming_server" /\ reason # "error"

\* the handler terminates: the client closed, the connection was lost, or
\* handling a message raised
HandlerEnds(c, reason) ==
  /\ conn[c].pc = "open"
  /\ conn' = [conn EXCEPT ![c].pc = "ended"]
  /\ connected_clients' = IF Unregisters(conn[c].server, reason)
                          THEN RemoveClient(connected_clients, c)
                          ELSE connected_clients
  /\ sent' = MarkGone(sent, connected_clients, connected_clients')
  /\ loops' = StillThere(loops, connected_clients')
  /\ UNCHANGED <<event_queue, streaming_active, published>>
  /\ UNCHANGED <<dvars, ovars>>

\* ------------------------------------------------ AgentOrchestrator
\* variant: separate if statements, so that a later category replaces an
\* earlier one
_analyze_intent_LastMatch(text) ==
  LET inv == text \cap inventory_keywords # {}
      fc == text \cap forecasting_keywords # {}
      sup == text \cap supplier_keywords # {}
      cx == text \cap complex_keywords # {}
  IN [primary_agent |-> IF cx THEN "orchestrator"
                        ELSE IF sup THEN "supplier_agent"
                        ELSE IF fc THEN "forecasting_agent"
                        ELSE IF inv THEN "inventory_agent" ELSE "None",
      needs_forecasting |-> inv /\ ({"forecast", "predict"} \cap text # {}),
      needs_supplier_recommendations |-> inv /\ ({"supplier", "recommend"} \cap text # {}),
      needs_inventory_integration |-> fc /\ ({"inventory", "stock"} \cap text # {}),
      needs_logistics_optimization |-> sup /\ ({"shipping", "logistics"} \cap text # {}),
      complex_request |-> cx]

\* _analyze_intent: the if / elif / elif chain of lines 217-231 (the chain
\* its elif lines spell out), then the if of line 235 that overrides it
_analyze_intent(text) ==
  LET inv == text \cap inventory_keywords # {}
      fc == ~inv /\ text \cap forecasting_keywords # {}
      sup == ~inv /\ ~fc /\ text \cap supplier_keywords # {}
      cx == text \cap complex_keywords # {}
  IN [primary_agent |-> IF cx THEN "orchestrator"
                        ELSE IF inv THEN "inventory_agent"
                        ELSE IF fc THEN "forecasting_agent"
                        ELSE IF sup THEN "supplier_agent" ELSE "None",
      needs_forecasting |-> inv /\ ({"forecast", "predict"} \cap text # {}),
      needs_supplier_recommendations |-> inv /\ ({"supplier", "recommend"} \cap text # {}),
      needs_inventory_integration |-> fc /\ ({"inventory", "stock"} \cap text # {}),
      needs_logistics_optimization |-> sup /\ ({"shipping", "logistics"} \cap text # {}),
      complex_request |-> cx]

\* no request yet
NoRequest ==
  [pc |-> "idle", text |-> {}, low_stock |-> FALSE, primary_agent |-> "None",
   steps |-> <<>>, results |-> <<>>, failed |-> "", response |-> Null]

InitOrch == orch = NoRequest

\* variant: the complex handler begins with its inventory step
RouteOfInventoryFirst(intent) ==
  IF intent.primary_agent \in {"inventory_agent", "forecasting_agent", "supplier_agent"}
  THEN "single" ELSE "inventory"

\* the if / elif / else of process_user_request, lines 54-61: where the call
\* continues
RouteOf(intent) ==
  IF intent.primary_agent \in {"inventory_agent", "forecasting_agent", "supplier_agent"}
  THEN "single" ELSE "forecast"

\* process_user_request up to the handler it chooses; low_stock tells whether
\* context["inventory_data"] has an item at or under its reorder point
process_user_request(text, low_stock) ==
  /\ orch.pc \in {"idle", "done"}
  /\ LET intent == _analyze_intent(text)
     IN orch' = [NoRequest EXCEPT !.pc = RouteOf(intent), !.text = text,
                                  !.low_stock = low_stock,
                                  !.primary_agent = intent.primary_agent]
  /\ UNCHANGED <<dvars, bvars, cvars>>

\* the agent methods a single-agent handler calls, in order (lines 63-158)
SingleSteps(text, low_stock) ==
  LET intent == _analyze_intent(text)
  IN IF intent.primary_agent = "inventory_agent"
     THEN <<"analyze_stock_levels">>
          \o (IF intent.needs_forecasting
              THEN <<"forecast_demand", "calculate_reorder_points">> ELSE <<>>)
          \o (IF intent.needs_supplier_recommendations /\ low_stock
              THEN <<"optimize_procurement">> ELSE <<>>)
     ELSE IF intent.primary_agent = "forecasting_agent"
     THEN <<"forecast_demand">>
     ELSE <<"analyze_supplier_performance", "assess_supplier_risks">>

SingleResponse(primary) ==
  IF primary = "inventory_agent" THEN "inventory_analysis"
  ELSE IF primary = "forecasting_agent" THEN "demand_forecast"
  ELSE "supplier_analysis"

\* a single-agent handler runs to its return, or one of its agent methods
\* raises and the exception leaves process_user_request
HandleSingle(ok) ==
  /\ orch.pc = "single"
  /\ orch' = IF ok
             THEN [orch EXCEPT !.pc = "done",
                               !.steps = SingleSteps(orch.text, orch.low_stock),
                               !.response = [kind |-> "payload",
                                             response_type |-> SingleResponse(orch.primary_agent)]]
             ELSE [orch EXCEPT !.pc = "done", !.failed = "single",
                               !.response = [kind |-> "exception"]]
  /\ UNCHANGED <<dvars, bvars, cvars>>

\* _generate_comprehensive_recommendations, lines 256-276: the domains that
\* contribute a recommendation
Recommendations(results, low_stock) ==
  (IF \E i \in 1..Len(results) : results[i] = "inventory" THEN
      (IF low_stock THEN <<"inventory">> ELSE <<>>) ELSE <<>>)
  \o (IF \E i \in 1..Len(results) : results[i] = "forecast" THEN <<"forecast">> ELSE <<>>)
  \o (IF \E i \in 1..Len(results) : results[i] = "supplier_recommendations"
      THEN <<"supplier_recommendations">> ELSE <<>>)

\* the return of _handle_complex_request, lines 194-199
Composite(o) ==
  [o EXCEPT !.pc = "done",
            !.response = [kind |-> "payload", response_type |-> "comprehensive_analysis",
                          data |-> o.results,
                          recommendations |-> Recommendations(o.results, o.low_stock)]]

\* an agent method raises: nothing catches it in _handle_complex_request nor
\* in process_user_request
Raised(o, step) == [o EXCEPT !.pc = "done", !.failed = step, !.response = [kind |-> "exception"]]

\* the entries of results whose values a step of _handle_complex_request
\* uses: forecasts at line 177, inventory_analysis at line 182
Reads(step) ==
  IF step = "forecast" THEN {}
  ELSE IF step = "inventory" THEN {"forecast"}
  ELSE {"inventory"}

\* step 1, lines 167-171
ForecastStep(ok) ==
  /\ orch.pc = "forecast"
  /\ orch' = IF ok
             THEN [orch EXCEPT !.pc = "inventory",
                               !.steps = Append(@, "forecast_demand"),
                               !.results = Append(@, "forecast")]
             ELSE Raised(orch, "forecast")
  /\ UNCHANGED <<dvars, bvars, cvars>>

\* variant: the sourcing step runs whatever the inventory analysis found
AfterInventoryAlways(o) == [o EXCEPT !.pc = "sourcing"]

\* the test of line 183 and, without low stock items, the return
AfterInventory(o) == IF o.low_stock THEN [o EXCEPT !.pc = "sourcing"] ELSE Composite(o)

\* step 2, lines 173-178, and the test of line 183
InventoryStep(ok) ==
  /\ orch.pc = "inventory"
  /\ orch' = IF ok
             THEN AfterInventory([orch EXCEPT
                    !.steps = @ \o <<"analyze_stock_levels", "calculate_reorder_points">>,
                    !.results = Append(@, "inventory")])
             ELSE Raised(orch, "inventory")
  /\ UNCHANGED <<dvars, bvars, cvars>>

\* step 3, lines 184-189, then step 4 and the return
SourcingStep(ok) ==
  /\ orch.pc = "sourcing"
  /\ orch' = IF ok
             THEN Composite([orch EXCEPT
                    !.steps = Append(@, "optimize_procurement"),
                    !.results = Append(@, "supplier_recommendations")])
             ELSE Raised(orch, "sourcing")
  /\ UNCHANGED <<dvars, bvars, cvars>>

Init == InitDispatch /\ InitBus /\ InitOrch /\ InitConn

Next ==
  \/ \E agent \in AgentPool : register_agent(agent)
  \/ \E rule \in RulePool : add_routing_rule(rule)
  \/ \E t \in Tasks, input \in Inputs : RouteTaskStart(t, input)
  \/ \E t \in Tasks, rt \in 0..MaxRT : HandlerReturns(t, "data", rt)
  \/ \E t \in Tasks : HandlerRaises(t)

Spec == Init /\ [][Next]_vars

\* the handler a call awaits returns or raises
Completes(t) == HandlerReturns(t, "data", 0) \/ HandlerRaises(t)

\* the rule of RulePool that recruits both kinds of handler
BothRule == CHOOSE rule \in RulePool : Len(rule.required_capabilities) = 2

\* two concurrent calls, every response time measured as 0, one rule added
NextLive ==
  \/ \E agent \in AgentPool : register_agent(agent)
  \/ add_routing_rule(BothRule)
  \/ \E t \in Tasks, input \in Inputs : RouteTaskStart(t, input)
  \/ \E t \in Tasks : HandlerReturns(t, "data", 0)
  \/ \E t \in Tasks : HandlerRaises(t)

\* every awaited handler invocation ends
SpecLive == Init /\ [][NextLive]_vars /\ \A t \in Tasks : WF_vars(Completes(t))

\* one route_task call at a time, and handlers may be deactivated
NextRouter ==
  \/ \E agent \in AgentPool : register_agent(agent)
  \/ \E rule \in RulePool : add_routing_rule(rule)
  \/ \E input \in Inputs : RouteTaskStart("t1", input)
  \/ \E value \in HandlerResults, rt \in 0..MaxRT : HandlerReturns("t1", value, rt)
  \/ HandlerRaises("t1")
  \/ \E r \in Refs : deactivate(r)

SpecRouter == Init /\ [][NextRouter]_vars

\* the event bus alone
NextBus ==
  \/ start_streaming
  \/ stop_streaming
  \/ \E c \in Clients : add_client(c)
  \/ \E c \in Clients : remove_client(c)
  \/ publish
  \/ \E l \in Loops : LoopBegins(l)
  \/ \E l \in Loops : LoopTimesOut(l)
  \/ \E l \in Loops : LoopGetsEvent(l)
  \/ \E l \in Loops, outcome \in SendOutcomes : SendCompletes(l, outcome)

SpecBus == Init /\ [][NextBus]_vars

\* the event bus once started and never stopped; the event loop runs every
\* task that is ready, and each send completes or raises
NextBusLive ==
  \/ start_streaming
  \/ \E c \in Clients : add_client(c)
  \/ \E c \in Clients : remove_client(c)
  \/ publish
  \/ \E l \in Loops : LoopBegins(l)
  \/ \E l \in Loops : LoopGetsEvent(l)
  \/ \E l \in Loops, outcome \in SendOutcomes : SendCompletes(l, outcome)

SendEnds(l) == \E outcome \in SendOutcomes : SendCompletes(l, outcome)

SpecBusLive ==
  /\ Init
  /\ [][NextBusLive]_vars
  /\ \A l \in Loops : /\ WF_vars(LoopBegins(l))
                       /\ WF_vars(LoopGetsEvent(l))
                       /\ WF_vars(SendEnds(l))

\* the servers: clients connect and their handlers end while events are
\* published and broadcast
NextConn ==
  \/ \E c \in Clients : handle_client(c)
  \/ \E c \in Clients : websocket_endpoint(c)
  \/ \E c \in Clients, reason \in Reasons : HandlerEnds(c, reason)
  \/ start_streaming
  \/ publish
  \/ \E l \in Loops : LoopBegins(l)
  \/ \E l \in Loops : LoopGetsEvent(l)
  \/ \E l \in Loops, outcome \in SendOutcomes : SendCompletes(l, outcome)

SpecConn == Init /\ [][NextConn]_vars

\* one route_task call at a time, which its caller may cancel
NextCancel ==
  \/ \E agent \in AgentPool : register_agent(agent)
  \/ \E rule \in RulePool : add_routing_rule(rule)
  \/ \E input \in Inputs : RouteTaskStart("t1", input)
  \/ \E rt \in 0..MaxRT : HandlerReturns("t1", "data", rt)
  \/ HandlerRaises("t1")
  \/ CancelTask("t1")

SpecCancel == Init /\ [][NextCancel]_vars

\* the AgentOrchestrator alone
NextPipeline ==
  \/ \E text \in Texts, low_stock \in BOOLEAN : process_user_request(text, low_stock)
  \/ \E ok \in BOOLEAN : HandleSingle(ok)
  \/ \E ok \in BOOLEAN : ForecastStep(ok)
  \/ \E ok \in BOOLEAN : InventoryStep(ok)
  \/ \E ok \in BOOLEAN : SourcingStep(ok)

SpecPipeline == Init /\ [][NextPipeline]_vars

TypeOK ==
  /\ \A r \in Refs : objs[r] # Null =>
       /\ objs[r].status \in {"active", "busy", "inactive"}
       /\ objs[r].response_time \in 0..MaxRT
  /\ \A t \in Tasks : pc[t] \in {"idle", "awaiting", "done"}
  /\ \A c \in Clients : /\ conn[c].pc \in {"none", "open", "ended"}
                         /\ conn[c].server \in Servers \cup {""}

\* ============================================================ properties
Candidates(input) == find_best_agents(objs, registered_agents, routing_rules, input)

Matching(input) ==
  { i \in 1..Len(routing_rules) : _evaluate_rule(routing_rules[i], input) }

\* the capability tags contributed by the rules matching the input
Tags(input) ==
  UNION { Range(routing_rules[i].required_capabilities) : i \in Matching(input) }

RegPos(r) == CHOOSE i \in 1..Len(registered_agents) : registered_agents[i] = r

\* the handler a call is awaiting
Current(t) == suitable[t][idx[t]]

\* C1: the success_rate of every registration is within [0,1] in every
\* reachable state, whatever successes and failures happened, also when calls
\* on the same handler interleave.
C1_SuccessRateInRange ==
  \A r \in Refs : objs[r] # Null =>
     objs[r].success_rate >= RateMin /\ objs[r].success_rate <= RateMax

\* a failed attempt met the floor, a successful one the cap, with two calls
\* having run
C1_Witness ==
  /\ \E t \in Tasks : \E i \in 1..Len(attempts[t]) :
        ~attempts[t][i].ok /\ attempts[t][i].at_limit
  /\ \E t \in Tasks : \E i \in 1..Len(attempts[t]) :
        attempts[t][i].ok /\ attempts[t][i].at_limit

\* C4 as claimed: a registered handler that is busy under a call awaiting it is
\* in the candidate list of every request whose matching rules require one of
\* its capabilities.
C4_BusyStillEligible ==
  \A t \in Tasks : pc[t] = "awaiting" =>
     LET r == Current(t) IN
       (r \in Range(registered_agents) /\ objs[r].status = "busy") =>
          \A input \in Inputs :
             objs[r].caps \cap Tags(input) # {} => r \in Range(Candidates(input))

\* C4 amended: such a busy handler is in the candidate list of no request.
C4_BusyNotEligible ==
  \A t \in Tasks : pc[t] = "awaiting" =>
     LET r == Current(t) IN
       (r \in Range(registered_agents) /\ objs[r].status = "busy") =>
          \A input \in Inputs : r \notin Range(Candidates(input))

\* a call awaits a busy registered handler, a second call was routed meanwhile
\* by rules that require a capability of that handler
C4_Witness ==
  \E t \in Tasks, u \in Tasks :
     /\ t # u
     /\ pc[t] = "awaiting"
     /\ Current(t) \in Range(registered_agents)
     /\ objs[Current(t)].status = "busy"
     /\ \E input \in Inputs : objs[Current(t)].caps \cap Tags(input) # {}
     /\ pc[u] = "done" /\ result[u].kind = "failure"

\* C5 as claimed: no two calls await an invocation of the same handler.
C5_SingleDispatchPerHandler ==
  \A t \in Tasks, u \in Tasks :
     (t # u /\ pc[t] = "awaiting" /\ pc[u] = "awaiting") => Current(t) # Current(u)

\* C6: the list of find_best_agents has no duplicates and holds exactly the
\* registered handlers that are active and expose a capability required by a
\* matching rule; no inactive handler is in it.
C6_RouterOutput ==
  \A input \in Inputs :
     LET L == Candidates(input) IN
       /\ \A i \in 1..Len(L), j \in 1..Len(L) : i # j => L[i] # L[j]
       /\ Range(L) = { r \in Range(registered_agents) :
                         objs[r].status = "active" /\ objs[r].caps \cap Tags(input) # {} }
       /\ \A i \in 1..Len(L) : objs[L[i]].status # "inactive"

\* a rule declared twice recruits a handler twice, and an inactive handler
\* with a required capability is left out of a non-empty list
C6_Witness ==
  \E input \in Inputs :
     /\ Candidates(input) # <<>>
     /\ \E i \in Matching(input), j \in Matching(input) :
           i # j /\ routing_rules[i] = routing_rules[j]
     /\ \E r \in Range(registered_agents) :
           objs[r].status = "inactive" /\ objs[r].caps \cap Tags(input) # {}

\* C7: in the list of find_best_agents a higher success_rate comes before a
\* lower one, and with equal success_rate the smaller response time first.
C7_RankedOrder ==
  \A input \in Inputs :
     LET L == Candidates(input) IN
       \A i \in 1..Len(L), j \in 1..Len(L) : i < j =>
          \/ objs[L[i]].success_rate > objs[L[j]].success_rate
          \/ /\ objs[L[i]].success_rate = objs[L[j]].success_rate
             /\ objs[L[i]].response_time <= objs[L[j]].response_time

\* the tie-break by response time moved a handler ahead of the order in which
\* it was recruited
C7_Witness ==
  \E input \in Inputs :
     LET L == Candidates(input)
         U == Unique(objs, Recruit(objs, registered_agents, routing_rules, input), {})
     IN /\ Len(L) = 2
        /\ L # U
        /\ objs[L[1]].success_rate = objs[L[2]].success_rate
        /\ objs[L[1]].response_time < objs[L[2]].response_time

Tied(a, b) ==
  objs[a].success_rate = objs[b].success_rate /\ objs[a].response_time = objs[b].response_time

\* C8 as claimed: candidates with equal success_rate and response time are in
\* registration order.
C8_TiesByRegistration ==
  \A input \in Inputs :
     LET L == Candidates(input) IN
       \A i \in 1..Len(L), j \in 1..Len(L) :
          (i < j /\ Tied(L[i], L[j])) => RegPos(L[i]) < RegPos(L[j])

\* the first matching rule that recruits handler r
FirstRule(r, input) ==
  CHOOSE i \in Matching(input) :
     /\ Range(routing_rules[i].required_capabilities) \cap objs[r].caps # {}
     /\ \A k \in Matching(input) :
           Range(routing_rules[k].required_capabilities) \cap objs[r].caps # {} => i <= k

\* C8 amended: tied candidates are in the order of their first recruitment:
\* by the declaration order of the first matching rule that recruits them, and
\* by registration order under the same rule.
C8_TiesByRecruitment ==
  \A input \in Inputs :
     LET L == Candidates(input) IN
       \A i \in 1..Len(L), j \in 1..Len(L) :
          (i < j /\ Tied(L[i], L[j])) =>
             \/ FirstRule(L[i], input) < FirstRule(L[j], input)
             \/ /\ FirstRule(L[i], input) = FirstRule(L[j], input)
                /\ RegPos(L[i]) < RegPos(L[j])

\* two tied candidates, the later registered one first
C8_Witness ==
  \E input \in Inputs :
     LET L == Candidates(input) IN
       /\ Len(L) = 2
       /\ Tied(L[1], L[2])
       /\ RegPos(L[1]) > RegPos(L[2])

\* C9: a call whose task matches no rule returns the routing failure at once,
\* invokes no handler and changes neither a registration nor the history.
C9_NoMatchNoEffect ==
  [][ \A t \in Tasks, input \in Inputs :
        (Matching(input) = {} /\ RouteTaskStart(t, input)) =>
           /\ pc'[t] = "done"
           /\ result'[t].kind = "failure"
           /\ result'[t].error = "No suitable agents found for this task"
           /\ attempts'[t] = <<>>
           /\ objs' = objs
           /\ registered_agents' = registered_agents
           /\ task_history' = task_history ]_vars

\* such a call has returned while an active handler and a string rule exist
C9_Witness ==
  \E t \in Tasks :
     /\ pc[t] = "done"
     /\ result[t].kind = "failure"
     /\ result[t].error = "No suitable agents found for this task"
     /\ Matching(result[t].input) = {}
     /\ attempts[t] = <<>>
     /\ \E i \in 1..Len(routing_rules) : routing_rules[i].condition.type = "str"
     /\ \E r \in Range(registered_agents) : objs[r].status = "active"

\* a finished call that tried exactly two handlers, the first failed and the
\* second succeeded
FailedThenSucceeded(t) ==
  /\ pc[t] = "done"
  /\ Len(attempts[t]) = 2
  /\ ~attempts[t][1].ok
  /\ attempts[t][2].ok

\* C10 as claimed: then the call succeeded with the second handler, the first
\* handler's success_rate went down and the second's went up.
C10_DecreasedAndIncreased ==
  \A t \in Tasks : FailedThenSucceeded(t) =>
     /\ result[t].kind = "success"
     /\ result[t].agent_used = attempts[t][2].agent_id
     /\ attempts[t][1].delta < 0
     /\ attempts[t][2].delta > 0

\* C10 amended: the first handler's success_rate went down by one step unless
\* it was 0.0 already, the second's went up by one step unless it was 1.0.
C10_StepUnlessClamped ==
  \A t \in Tasks : FailedThenSucceeded(t) =>
     /\ result[t].kind = "success"
     /\ result[t].agent_used = attempts[t][2].agent_id
     /\ attempts[t][1].agent_id # attempts[t][2].agent_id
     /\ IF attempts[t][1].at_limit THEN attempts[t][1].delta = 0
        ELSE attempts[t][1].delta = 0 - Step
     /\ IF attempts[t][2].at_limit THEN attempts[t][2].delta = 0
        ELSE attempts[t][2].delta = Step

\* such a call where both rates really moved
C10_Witness ==
  \E t \in Tasks :
     /\ FailedThenSucceeded(t)
     /\ attempts[t][1].delta < 0
     /\ attempts[t][2].delta > 0

\* the events in a log between two positions, removal marks included
Between(log, i, j) == { log[k] : k \in (i + 1)..(j - 1) }

\* C2 as claimed: a subscriber that stays registered is sent the events in
\* the order in which they were put on the queue.
C2_PublishOrder ==
  \A c \in Clients : \A i \in 1..Len(sent[c]), j \in 1..Len(sent[c]) :
     (i < j /\ sent[c][i] # 0 /\ sent[c][j] # 0 /\ 0 \notin Between(sent[c], i, j))
        => sent[c][i] <= sent[c][j]

\* C3 as claimed: when the delivery of an event ends, every subscriber whose
\* send raised is out of connected_clients, and every other subscriber that
\* was registered throughout the delivery was sent the event.
C3_RaisingSubscriberRemoved ==
  [][ \A l \in Loops :
        (loops[l].pc = "send" /\ loops'[l].pc # "send") =>
           /\ loops'[l].raised \cap Range(connected_clients') = {}
           /\ \A c \in (loops[l].audience \cap Range(connected_clients')) \ loops'[l].raised :
                 \E k \in 1..Len(sent'[c]) : sent'[c][k] = loops[l].event ]_vars

\* a finished call all of whose candidates failed
Exhausted(t) ==
  /\ pc[t] = "done"
  /\ result[t].kind = "failure"
  /\ result[t].error = "All suitable agents failed to process the task"

\* the handlers named in a returned dict
Listed(res) ==
  IF "attempted" \in DOMAIN res
  THEN { res.attempted[i].agent_id : i \in 1..Len(res.attempted) }
  ELSE {}

\* C11 as claimed: when every candidate failed, the returned failure lists
\* every attempted handler (with its reason) and the success_rate of each
\* attempted handler went down.
C11_ExhaustedListsAttempts ==
  \A t \in Tasks : Exhausted(t) =>
     \A i \in 1..Len(attempts[t]) :
        /\ attempts[t][i].agent_id \in Listed(result[t])
        /\ attempts[t][i].delta < 0

\* C12 as claimed: a handler that returns an error signal is not reported as
\* the handler that succeeded.
C12_ErrorSignalIsFailure ==
  \A t \in Tasks :
     (pc[t] = "done" /\ result[t].kind = "success") => result[t].result # "error_signal"

\* C13 as claimed: a request whose call ended succeeded or exhausted is in
\* task_history.
C13_TerminalInHistory ==
  \A t \in Tasks :
     (pc[t] = "done" /\ (result[t].kind = "success" \/ Exhausted(t)))
        => t \in Range(task_history)

\* C13 amended: a request whose call ended succeeded is in task_history, and
\* the step that ends a call as exhausted appends nothing.
C13_SucceededInHistory ==
  [][ \A t \in Tasks :
        /\ (pc'[t] = "done" /\ result'[t].kind = "success") => t \in Range(task_history')
        /\ (pc[t] = "awaiting" /\ Exhausted(t)') => task_history' = task_history ]_vars

\* a call has succeeded and is in the history while another one ended
\* exhausted
C13_Witness ==
  \E t \in Tasks, u \in Tasks :
     /\ pc[t] = "done" /\ result[t].kind = "success" /\ t \in Range(task_history)
     /\ Exhausted(u) /\ u \notin Range(task_history)

\* the calls whose attempt on the registration object r completes in a step
Completing(r) ==
  { t \in Tasks : /\ pc[t] = "awaiting"
                  /\ suitable[t][idx[t]] = r
                  /\ Len(attempts'[t]) = Len(attempts[t]) + 1 }

AllFailed(t) == \A i \in 1..Len(attempts[t]) : ~attempts[t][i].ok

\* C15: a call in flight has reported nothing and has had only failed
\* attempts; a finished call carries exactly one of the three outcomes:
\* succeeded (its last attempt succeeded, every earlier one failed), routing
\* failure (no attempt was made) or exhausted (at least one attempt, all
\* failed).
C15_OneOutcome ==
  \A t \in Tasks :
     /\ pc[t] = "awaiting" => (result[t] = Null /\ AllFailed(t))
     /\ pc[t] = "done" =>
          \/ /\ result[t].kind = "success"
             /\ attempts[t] # <<>>
             /\ attempts[t][Len(attempts[t])].ok
             /\ \A i \in 1..(Len(attempts[t]) - 1) : ~attempts[t][i].ok
          \/ /\ result[t].kind = "failure"
             /\ result[t].error = "No suitable agents found for this task"
             /\ attempts[t] = <<>>
          \/ /\ Exhausted(t)
             /\ attempts[t] # <<>>
             /\ AllFailed(t)

\* one call succeeded on its second candidate, another one ended exhausted
\* after two candidates
C15_Witness ==
  \E t \in Tasks, u \in Tasks :
     /\ FailedThenSucceeded(t)
     /\ Exhausted(u) /\ Len(attempts[u]) = 2

Registered(heap, registry, id) ==
  IF \E i \in 1..Len(registry) : heap[registry[i]].agent_id = id
  THEN heap[registry[CHOOSE i \in 1..Len(registry) : heap[registry[i]].agent_id = id]]
  ELSE Null

\* C17 as claimed: register_agent for an agent_id that is already present
\* leaves the registration stored under that id (capabilities, status,
\* success_rate, response_time) as it was.
C17_DuplicateLeavesRegistration ==
  [][ \A agent \in AgentPool :
        (/\ Registered(objs, registered_agents, agent.agent_id) # Null
         /\ register_agent(agent))
        => Registered(objs', registered_agents', agent.agent_id)
             = Registered(objs, registered_agents, agent.agent_id) ]_vars

\* the capability lists a lookup is made with
TagLists ==
  { rule.required_capabilities : rule \in RulePool } \cup
  { DefaultRules[i].required_capabilities : i \in DOMAIN DefaultRules }

\* C18 as claimed: the lookup returns every registered handler that has one
\* of the capabilities, whatever its status.
C18_LookupIgnoresStatus ==
  \A tags \in TagLists : \A i \in 1..Len(registered_agents) :
     (objs[registered_agents[i]].caps \cap Range(tags) # {})
        => registered_agents[i] \in
             Range(_find_agents_by_capabilities(objs, registered_agents, tags))

\* C18 amended: the lookup returns, in registration order and once each, the
\* registered handlers that have one of the capabilities and whose status is
\* "active"; the status filter is part of the lookup.
C18_LookupActiveOnly ==
  \A tags \in TagLists :
     LET found == _find_agents_by_capabilities(objs, registered_agents, tags)
     IN /\ Range(found) =
             { r \in Range(registered_agents) :
                  /\ objs[r].status = "active"
                  /\ objs[r].caps \cap Range(tags) # {} }
        /\ \A i \in 1..Len(found), j \in 1..Len(found) :
              i < j => RegPos(found[i]) < RegPos(found[j])

\* two handlers with the capability are registered, one busy and left out of
\* the lookup, one active and returned by it
C18_Witness ==
  \E tags \in TagLists, r \in Range(registered_agents), q \in Range(registered_agents) :
     /\ objs[r].status = "busy" /\ objs[r].caps \cap Range(tags) # {}
     /\ objs[q].status = "active" /\ objs[q].caps \cap Range(tags) # {}
     /\ _find_agents_by_capabilities(objs, registered_agents, tags) = <<q>>

\* the only registered handler is active, has the inventory capability and
\* success_rate 1.0
OneInventoryHandler ==
  /\ Len(registered_agents) = 1
  /\ "inventory_management" \in objs[registered_agents[1]].caps
  /\ objs[registered_agents[1]].status = "active"
  /\ objs[registered_agents[1]].success_rate = RateMax

\* inventory requests: the texts that contain the word "inventory", and a
\* text such as "check stock levels", which contains no keyword of any rule
InventoryRequests == { input \in Inputs : "inventory" \in input } \cup {{}}

\* C19 as claimed: with the default rules only and that one handler, a call
\* for an inventory request hands the request to the handler (the one way
\* for it to be invoked once and for the call to return succeeded).
C19_DefaultRulesDispatch ==
  [][ \A t \in Tasks, input \in InventoryRequests :
        (routing_rules = DefaultRules /\ OneInventoryHandler /\ RouteTaskStart(t, input))
        => /\ pc'[t] = "awaiting"
           /\ suitable'[t] = <<registered_agents[1]>> ]_vars

\* C20 as claimed, for the deliveries in which no send raises: when the
\* delivery of an event ends, every subscriber that was registered from its
\* start to its end has been sent the event.
C20_EverySubscriberSent ==
  [][ \A l \in Loops :
        (loops[l].pc = "send" /\ loops'[l].pc # "send" /\ loops'[l].raised = {}) =>
           \A c \in loops[l].audience \cap Range(connected_clients') :
              \E k \in 1..Len(sent'[c]) : sent'[c][k] = loops[l].event ]_vars

\* C21 as claimed: no event occurs twice in the log of the sends to a
\* subscriber.
C21_AtMostOnce ==
  \A c \in Clients : \A i \in 1..Len(sent[c]), j \in 1..Len(sent[c]) :
     (sent[c][i] # 0 /\ sent[c][i] = sent[c][j]) => i = j

\* the number of entries of a list that are c
RECURSIVE Count(_, _)
Count(list, c) ==
  IF list = <<>> THEN 0
  ELSE (IF Head(list) = c THEN 1 ELSE 0) + Count(Tail(list), c)

\* C22 as claimed: a step that removes subscriber c (remove_client, or the
\* removal at the end of a delivery) leaves no entry of c in
\* connected_clients, and a send to c starts only while c is in
\* connected_clients; so after its removal nothing is sent to c until
\* add_client(c).
C22_RemovedGetsNoSend ==
  [][ \A c \in Clients :
        /\ Count(connected_clients', c) < Count(connected_clients, c)
              => c \notin Range(connected_clients')
        /\ (Len(sent'[c]) > Len(sent[c]) /\ sent'[c][Len(sent'[c])] # 0)
              => c \in Range(connected_clients) ]_vars

\* a finished process_user_request call that went through
\* _handle_complex_request
PipelineDone == orch.pc = "done" /\ orch.failed \notin {"single"} /\ orch.response # Null
                  /\ RouteOf(_analyze_intent(orch.text)) = "forecast"

\* such a call for a request classified as composite
CompositeDone == PipelineDone /\ orch.primary_agent = "orchestrator"

Marked(res) == IF "failed_domains" \in DOMAIN res THEN res.failed_domains ELSE {}

\* C24 as claimed: when a step of the pipeline fails, the call still returns
\* the composite result, with a marker for the failed domain, and the steps
\* after the failed one have run.
C24_PartialFailureContinues ==
  (CompositeDone /\ orch.failed # "") =>
     /\ orch.response.kind = "payload"
     /\ orch.failed \in Marked(orch.response)
     /\ orch.failed = "forecast" => "analyze_stock_levels" \in Range(orch.steps)
     /\ (orch.failed = "inventory" /\ orch.low_stock)
           => "optimize_procurement" \in Range(orch.steps)

\* C25 as claimed: the pipeline's result is an exhausted failure exactly when
\* no step succeeded, and a (partial) success when some step did.
C25_ExhaustedIffAllFailed ==
  CompositeDone =>
     /\ orch.results # <<>> => orch.response.kind = "payload"
     /\ orch.results = <<>> => orch.response.kind = "failure"
     /\ orch.response.kind = "failure" => orch.results = <<>>

\* C26 as claimed: what a caller of route_task or of process_user_request
\* gets is a payload, of success or of failure, never an exception.
C26_NoRawException ==
  /\ \A t \in Tasks : pc[t] = "done" => result[t].kind \in {"success", "failure"}
  /\ orch.pc = "done" => orch.response.kind \in {"payload", "failure"}

\* the category the claim gives a text
Category(text) ==
  IF text \cap complex_keywords # {} THEN "orchestrator"
  ELSE IF text \cap inventory_keywords # {} THEN "inventory_agent"
  ELSE IF text \cap forecasting_keywords # {} THEN "forecasting_agent"
  ELSE IF text \cap supplier_keywords # {} THEN "supplier_agent"
  ELSE "None"

DefaultCapability(kw) ==
  IF kw = "inventory" THEN "inventory_management" ELSE "demand_forecasting"

\* the default agents are registered, each once, and active
DefaultAgentsActive ==
  /\ Len(registered_agents) = Cardinality(AgentPool)
  /\ \A agent \in AgentPool : \E r \in Range(registered_agents) :
        objs[r].agent_id = agent.agent_id /\ objs[r].status = "active"

\* C28 as claimed: with the default rules only and the default agents
\* registered, a call whose text has a default keyword starts by invoking a
\* handler that has the capability of that keyword's rule.
C28_DefaultKeywordRouted ==
  [][ \A t \in Tasks, input \in Inputs \ {{}} :
        (routing_rules = DefaultRules /\ DefaultAgentsActive /\ RouteTaskStart(t, input))
        => /\ pc'[t] = "awaiting"
           /\ \E kw \in input :
                 DefaultCapability(kw) \in objs'[suitable'[t][1]].caps ]_vars

\* C29: while a call runs, its list of candidates stays the one computed at
\* its start; a step of the call moves it from one candidate to the next one
\* of the list, and only after a failed attempt; the step in which a handler
\* returns ends the call; and no step of the call changes a handler ranked
\* after the one it has reached.
C29_RankedOrderFirstSuccess ==
  [][ \A t \in Tasks :
        /\ (pc[t] # "awaiting" /\ pc'[t] = "awaiting") => idx'[t] = 1
        /\ (pc[t] = "awaiting" /\ pc'[t] = "awaiting") =>
              /\ suitable'[t] = suitable[t]
              /\ \/ idx'[t] = idx[t] /\ attempts'[t] = attempts[t]
                 \/ /\ idx'[t] = idx[t] + 1
                    /\ attempts'[t] = Append(attempts[t], attempts'[t][Len(attempts'[t])])
                    /\ ~attempts'[t][Len(attempts'[t])].ok
                    /\ attempts'[t][Len(attempts'[t])].agent_id
                          = objs[suitable[t][idx[t]]].agent_id
        /\ (pc[t] = "awaiting" /\ Len(attempts'[t]) > Len(attempts[t])
               /\ attempts'[t][Len(attempts'[t])].ok)
              => /\ pc'[t] = "done"
                 /\ result'[t].agent_used = objs[suitable[t][idx[t]]].agent_id
        /\ (pc[t] = "awaiting" /\ Len(attempts'[t]) > Len(attempts[t])) =>
              \A j \in (idx[t] + 1)..Len(suitable[t]) :
                 \/ objs'[suitable[t][j]] = objs[suitable[t][j]]
                 \/ objs'[suitable[t][j]] = Null
                 \/ /\ j = idx[t] + 1 /\ pc'[t] = "awaiting"
                    /\ objs'[suitable[t][j]] = [objs[suitable[t][j]] EXCEPT !.status = "busy"] ]_vars

\* a call is at the first of two candidates while another call has passed
\* from a failed first candidate to a second one that returned
C29_Witness ==
  \E t \in Tasks, u \in Tasks :
     /\ pc[t] = "awaiting" /\ idx[t] = 1 /\ Len(suitable[t]) = 2
     /\ pc[u] = "done" /\ Len(attempts[u]) = 2 /\ attempts[u][2].ok

\* C30: a call that is awaiting a handler reaches its end, given that every
\* awaited handler invocation returns or raises.
C30_Terminates ==
  \A t \in Tasks : (pc[t] = "awaiting") ~> (pc[t] = "done")

\* two calls are in flight at once, one of them at its second candidate
C30_Witness ==
  \E t \in Tasks, u \in Tasks :
     /\ t # u /\ pc[t] = "awaiting" /\ pc[u] = "awaiting"
     /\ idx[t] = 2

\* the step of _handle_complex_request that is about to run
PipelineAt == IF orch.pc \in {"forecast", "inventory", "sourcing"} THEN orch.pc ELSE ""

\* C31: the inventory step is reached only with the forecast entry written
\* and the sourcing step only with the inventory entry written; the entries
\* a step uses are among those already written; a step adds one entry after
\* those written before it and leaves these as they are.
C31_StepsInSequence ==
  [][ /\ PipelineAt = "inventory" => orch.results = <<"forecast">>
      /\ PipelineAt = "sourcing" => orch.results = <<"forecast", "inventory">>
      /\ PipelineAt # "" => Reads(PipelineAt) \subseteq Range(orch.results)
      /\ (PipelineAt # "" /\ orch'.failed = "") =>
            /\ Len(orch'.results) = Len(orch.results) + 1
            /\ SubSeq(orch'.results, 1, Len(orch.results)) = orch.results
            /\ orch'.results[Len(orch'.results)] \notin Range(orch.results) ]_vars

\* the sourcing step is about to run on the entries of the two steps before
C31_Witness ==
  /\ orch.pc = "sourcing"
  /\ orch.steps = <<"forecast_demand", "analyze_stock_levels", "calculate_reorder_points">>

\* C32 as claimed: _handle_complex_request runs only for a request
\* classified as composite.
C32_PipelineOnlyForComposite ==
  (PipelineAt # "" \/ PipelineDone) => orch.primary_agent = "orchestrator"

\* C33 as claimed: the handler a call is awaiting has status "busy".
C33_AwaitedIsBusy ==
  \A t \in Tasks : pc[t] = "awaiting" => objs[suitable[t][idx[t]]].status = "busy"

\* C34 as claimed: when no call is awaiting a handler, no registration has
\* status "busy".
C34_NoBusyWhenIdle ==
  (\A t \in Tasks : pc[t] # "awaiting") =>
     \A r \in Refs : objs[r] # Null => objs[r].status # "busy"

\* C35 as claimed: a registration whose status is "inactive" keeps this
\* status (the program has no operation that reactivates a handler).
C35_InactiveStays ==
  [][ \A r \in Refs :
        (objs[r] # Null /\ objs[r].status = "inactive" /\ objs'[r] # Null)
           => objs'[r].status = "inactive" ]_vars

\* the consumer loops that exist
Running == { l \in Loops : loops[l].pc # "none" }

\* C36 as claimed: at most one consumer loop exists at any time.
C36_SingleConsumer == Cardinality(Running) <= 1

\* C37 as claimed: while streaming is stopped no event is taken from the
\* queue and no delivery starts.
C37_NoDeliveryAfterStop ==
  [][ ~streaming_active =>
        /\ Len(event_queue') >= Len(event_queue)
        /\ \A l \in Loops : loops[l].pc = "get" => loops'[l].pc # "send" ]_vars

\* C38: with streaming started and never stopped, every event in the queue
\* is eventually taken from it (and its delivery attempted), also after an
\* error raised while an earlier event was delivered.
C38_EveryEventDequeued ==
  \A e \in 1..MaxEvents :
     (streaming_active /\ e \in Range(event_queue)) ~> (e \notin Range(event_queue))

\* a loop that met an error in a delivery waits with an event in the queue
C38_Witness ==
  /\ streaming_active
  /\ event_queue # <<>>
  /\ \E l \in Loops : /\ loops[l].pc = "get"
                      /\ loops[l].raised \cap Range(connected_clients) # {}

\* C39 as claimed: a client whose connection handler has terminated is in
\* no subscriber registry.
C39_EndedIsUnregistered ==
  \A c \in Clients : conn[c].pc = "ended" => c \notin Range(connected_clients)
====
